---------------------------- MODULE Spec2Model ----------------------------
(***************************************************************************)
(* The assessment engine of backend/app/main.py: the assess handler and    *)
(* the helper functions it calls.  Free text is a sequence of one-         *)
(* character strings, so that lower-casing, stripping, substring tests and *)
(* the regular expressions of the source are computed, not assumed.  The   *)
(* element "sup2" stands for the one character U+00B2 (SUPERSCRIPT TWO).   *)
(***************************************************************************)
EXTENDS Integers, Sequences, FiniteSets, TLC

VARIABLES pc, call, req, locals, resp, arg, ret,
          earlier      \* what an observer noted of an earlier call of assess

vars == <<pc, call, req, locals, resp, arg, ret, earlier>>

----------------------------------------------------------------------------
(* Characters and the str methods the source uses.                         *)

LowerLetters == <<"a","b","c","d","e","f","g","h","i","j","k","l","m","n","o","p","q","r","s","t","u","v","w","x","y","z">>
UpperLetters == <<"A","B","C","D","E","F","G","H","I","J","K","L","M","N","O","P","Q","R","S","T","U","V","W","X","Y","Z">>
DecimalDigits == <<"0","1","2","3","4","5","6","7","8","9">>

Range(f) == {f[i] : i \in DOMAIN f}

LowerSet == Range(LowerLetters)
UpperSet == Range(UpperLetters)
DecimalSet == Range(DecimalDigits)

\* str.lower() on the upper-case letters
ToLower == [c \in UpperSet |-> LowerLetters[CHOOSE i \in DOMAIN UpperLetters : UpperLetters[i] = c]]

\* str.lower() on one character
LowerChar(c) == IF c \in UpperSet THEN ToLower[c] ELSE c

\* s.lower()
Lower(s) == [i \in DOMAIN s |-> LowerChar(s[i])]

\* whitespace, as str.strip() and the pattern \s see it
IsSpace(c) == c = " "

\* \d : the decimal digits; U+00B2 is not one of them
IsDecimal(c) == c \in DecimalSet

\* the characters str.isdigit() accepts: decimal digits and digit-like
\* characters such as U+00B2
IsDigitChar(c) == IsDecimal(c) \/ c = "sup2"

\* \w : alphanumeric (str.isalnum) or underscore
IsWordChar(c) ==
    \/ c \in LowerSet
    \/ c \in UpperSet
    \/ IsDigitChar(c)
    \/ c = "_"

\* s[i:j] of Python, as the characters i+1..j
Slice(s, i, j) == [k \in 1..(j - i) |-> s[i + k]]

\* s.strip()
Strip(s) ==
    LET keep == {i \in DOMAIN s : ~IsSpace(s[i])}
    IN  IF keep = {} THEN <<>>
        ELSE LET first == CHOOSE i \in keep : \A k \in keep : i <= k
                 last  == CHOOSE i \in keep : \A k \in keep : k <= i
             IN  Slice(s, first - 1, last)

\* w occurs in s right after the first p characters
MatchesAt(s, p, w) ==
    /\ p + Len(w) <= Len(s)
    /\ \A j \in DOMAIN w : s[p + j] = w[j]

\* Python's  w in s
In(w, s) == \E p \in 0..(Len(s) - Len(w)) : MatchesAt(s, p, w)

\* " ".join(items)
RECURSIVE Join(_)
Join(items) ==
    IF items = <<>> THEN <<>>
    ELSE IF Len(items) = 1 THEN items[1]
    ELSE items[1] \o <<" ">> \o Join(Tail(items))

\* s.isdigit()
IsDigit(s) == s # <<>> /\ \A i \in DOMAIN s : IsDigitChar(s[i])

DigitValue(c) == (CHOOSE i \in DOMAIN DecimalDigits : DecimalDigits[i] = c) - 1

\* the value of a non-empty run of decimal digits
RECURSIVE DecimalValue(_)
DecimalValue(ds) ==
    IF ds = <<>> THEN 0
    ELSE DecimalValue(SubSeq(ds, 1, Len(ds) - 1)) * 10 + DigitValue(ds[Len(ds)])

\* Optional values: the result of a call is a value, None, or an exception
None == [tag |-> "None", val |-> 0]
Some(n) == [tag |-> "int", val |-> n]
Raise(e) == [tag |-> "raise", val |-> 0]

\* int(s) for a string s that passed isdigit(): U+00B2 is no decimal digit
\* and int() raises ValueError on it
IntOf(s) ==
    IF \A i \in DOMAIN s : IsDecimal(s[i]) THEN Some(DecimalValue(s))
    ELSE Raise("ValueError")

----------------------------------------------------------------------------
(* Regular expressions.  A pattern is run over a set of positions (the     *)
(* numbers of characters consumed so far); each piece maps the positions   *)
(* before it to the positions after it, and re.search finds a match when   *)
(* some position survives the whole pattern.                               *)

Positions(s) == 0..Len(s)

\* a literal
Lit(s, P, w) == {p + Len(w) : p \in {q \in P : MatchesAt(s, q, w)}}

\* an alternation of literals  (a|b|c)
AnyOf(s, P, ws) == UNION {Lit(s, P, w) : w \in ws}

\* \s*
Spaces0(s, P) ==
    {q \in Positions(s) : \E p \in P : p <= q /\ \A k \in (p + 1)..q : IsSpace(s[k])}

\* \s+
Spaces1(s, P) ==
    {q \in Positions(s) : \E p \in P : p < q /\ \A k \in (p + 1)..q : IsSpace(s[k])}

\* \d+
Digits1(s, P) ==
    {q \in Positions(s) : \E p \in P : p < q /\ \A k \in (p + 1)..q : IsDecimal(s[k])}

IsWordAt(s, k) == k \in DOMAIN s /\ IsWordChar(s[k])

\* \b
WordBoundary(s, P) == {p \in P : IsWordAt(s, p) # IsWordAt(s, p + 1)}

----------------------------------------------------------------------------
(* _parse_retention_days                                                   *)

DAYS_PER_MONTH == 30
DAYS_PER_YEAR == 365

DayUnits == {<<"d","a","y">>, <<"d","a","y","s">>, <<"d">>}
MonthUnits == {<<"m","o","n","t","h">>, <<"m","o","n","t","h","s">>, <<"m">>}
YearUnits == {<<"y","e","a","r">>, <<"y","e","a","r","s">>, <<"y">>}

\* the pattern  (\d+)\s*(unit|...)\b  tried from position i with the digit
\* group ending at j
QuantityMatch(s, i, j, units) ==
    /\ i < j
    /\ \A k \in (i + 1)..j : IsDecimal(s[k])
    /\ WordBoundary(s, AnyOf(s, Spaces0(s, {j}), units)) # {}

\* re.search(r"(\d+)\s*(unit|...)\b", s): group 1 of the leftmost match, the
\* digit group as long as the match allows; <<>> when nothing matches
SearchQuantity(s, units) ==
    LET starts == {i \in Positions(s) : \E j \in Positions(s) : QuantityMatch(s, i, j, units)}
    IN  IF starts = {} THEN <<>>
        ELSE LET i == CHOOSE a \in starts : \A b \in starts : a <= b
                 ends == {j \in Positions(s) : QuantityMatch(s, i, j, units)}
                 j == CHOOSE a \in ends : \A b \in ends : b <= a
             IN  Slice(s, i, j)

Absent == <<"<absent>">>

\* a string is falsy when it is None or empty
Falsy(t) == t = Absent \/ t = <<>>

ParseStripped(s) ==
    LET d == SearchQuantity(s, DayUnits)
        m == SearchQuantity(s, MonthUnits)
        y == SearchQuantity(s, YearUnits)
    IN  IF d # <<>> THEN Some(DecimalValue(d))
        ELSE IF m # <<>> THEN Some(DecimalValue(m) * DAYS_PER_MONTH)
        ELSE IF y # <<>> THEN Some(DecimalValue(y) * DAYS_PER_YEAR)
        ELSE IF IsDigit(s) THEN IntOf(s)
        ELSE None

_parse_retention_days(retention) ==
    IF Falsy(retention) THEN None
    ELSE LET s == Lower(Strip(retention))
         IN  IF s = <<>> THEN None ELSE ParseStripped(s)

----------------------------------------------------------------------------
(* _has_special_category_data                                              *)

mapping_keywords ==
    { <<"s","p","e","c","i","a","l"," ","c","a","t","e","g","o","r","y">>, <<"b","i","o","m","e","t","r","i","c">>, <<"h","e","a","l","t","h">>, <<"m","e","d","i","c","a","l">>, <<"g","e","n","e","t","i","c">>,
      <<"r","e","l","i","g","i","o","n">>, <<"p","o","l","i","t","i","c","a","l">>, <<"s","e","x","u","a","l">>, <<"u","n","i","o","n">>, <<"r","a","c","e">>, <<"e","t","h","n","i","c">> }

_has_special_category_data(data_categories) ==
    \E n \in DOMAIN data_categories :
        LET cl == Lower(Strip(data_categories[n]))
        IN  cl # <<>> /\ \E kw \in mapping_keywords : In(kw, cl)

----------------------------------------------------------------------------
(* _infer_training_or_reuse                                                *)

\* (training|train|fine[- ]?tune|finetune)
TrainingWords == {<<"t","r","a","i","n","i","n","g">>, <<"t","r","a","i","n">>, <<"f","i","n","e","-","t","u","n","e">>, <<"f","i","n","e"," ","t","u","n","e">>, <<"f","i","n","e","t","u","n","e">>}

\* \b(no|not|without)\s+(any\s+)?(training|train|fine[- ]?tune|finetune)\b
NegationPattern1(h) ==
    LET p0 == WordBoundary(h, Positions(h))
        p1 == Spaces1(h, AnyOf(h, p0, {<<"n","o">>, <<"n","o","t">>, <<"w","i","t","h","o","u","t">>}))
        p2 == p1 \cup Spaces1(h, Lit(h, p1, <<"a","n","y">>))
    IN  WordBoundary(h, AnyOf(h, p2, TrainingWords)) # {}

\* \bdo not\s+(training|train|fine[- ]?tune|finetune)\b
NegationPattern2(h) ==
    LET p0 == WordBoundary(h, Positions(h))
        p1 == Spaces1(h, Lit(h, p0, <<"d","o"," ","n","o","t">>))
    IN  WordBoundary(h, AnyOf(h, p1, TrainingWords)) # {}

\* \bnot\s+used\s+for\s+training\b
NegationPattern3(h) ==
    LET p0 == WordBoundary(h, Positions(h))
        p1 == Spaces1(h, Lit(h, p0, <<"n","o","t">>))
        p2 == Spaces1(h, Lit(h, p1, <<"u","s","e","d">>))
        p3 == Spaces1(h, Lit(h, p2, <<"f","o","r">>))
    IN  WordBoundary(h, Lit(h, p3, <<"t","r","a","i","n","i","n","g">>)) # {}

negation_patterns(h) ==
    NegationPattern1(h) \/ NegationPattern2(h) \/ NegationPattern3(h)

\* \bword\b
WholeWord(h, ws) ==
    WordBoundary(h, AnyOf(h, WordBoundary(h, Positions(h)), ws)) # {}

\* the keywords list, as the texts the source writes
keywords ==
    << <<"\\","b","t","r","a","i","n","\\","b">>, <<"\\","b","f","i","n","e","[","-"," ","]","?","t","u","n","e","\\","b">>, <<"\\","b","f","i","n","e","t","u","n","e","\\","b">>,
       <<"i","m","p","r","o","v","e"," ","t","h","e"," ","m","o","d","e","l">>, <<"i","m","p","r","o","v","e"," ","m","o","d","e","l">>, <<"m","o","d","e","l"," ","i","m","p","r","o","v","e","m","e","n","t">>,
       <<"l","e","a","r","n"," ","f","r","o","m">>, <<"r","e","u","s","e"," ","p","r","o","m","p","t","s">>, <<"u","s","e"," ","p","r","o","m","p","t","s"," ","t","o"," ","i","m","p","r","o","v","e">>,
       <<"u","s","e"," ","l","o","g","s"," ","t","o"," ","i","m","p","r","o","v","e">>, <<"u","s","e"," ","l","o","g","s"," ","f","o","r"," ","t","r","a","i","n","i","n","g">> >>

\* re.search(k, h) for the keywords that are patterns
ReSearch(k, h) ==
    IF k = <<"\\","b","t","r","a","i","n","\\","b">> THEN WholeWord(h, {<<"t","r","a","i","n">>})
    ELSE IF k = <<"\\","b","f","i","n","e","[","-"," ","]","?","t","u","n","e","\\","b">> THEN WholeWord(h, {<<"f","i","n","e","-","t","u","n","e">>, <<"f","i","n","e"," ","t","u","n","e">>, <<"f","i","n","e","t","u","n","e">>})
    ELSE IF k = <<"\\","b","f","i","n","e","t","u","n","e","\\","b">> THEN WholeWord(h, {<<"f","i","n","e","t","u","n","e">>})
    ELSE FALSE

\* (k in haystack) if " " in k else re.search(k, haystack)
KeywordHit(k, h) == IF In(<<" ">>, k) THEN In(k, h) ELSE ReSearch(k, h)

\* a slip: the keyword list is consulted before the negation patterns
_infer_keywords_first(feature_description, processing_operations, purposes) ==
    LET ops == Lower(Join(processing_operations))
        haystack == Lower(feature_description) \o <<" ">> \o Lower(Join(purposes))
    IN  IF In(<<"t","r","a","i","n","i","n","g">>, ops) \/ In(<<"t","r","a","i","n">>, ops) THEN TRUE
        ELSE IF \E n \in DOMAIN keywords : KeywordHit(keywords[n], haystack) THEN TRUE
        ELSE FALSE

_infer_training_or_reuse(feature_description, processing_operations, purposes) ==
    LET ops == Lower(Join(processing_operations))
        desc == Lower(feature_description)
        p == Lower(Join(purposes))
        haystack == desc \o <<" ">> \o p
    IN  IF In(<<"t","r","a","i","n","i","n","g">>, ops) \/ In(<<"t","r","a","i","n">>, ops) THEN TRUE
        ELSE IF negation_patterns(haystack) THEN FALSE
        ELSE \E n \in DOMAIN keywords : KeywordHit(keywords[n], haystack)

----------------------------------------------------------------------------
(* _infer_significant_effects                                              *)

significant_keywords ==
    { <<"e","l","i","g","i","b","i","l","i","t","y">>, <<"e","l","i","g","i","b","l","e">>, <<"a","c","c","e","s","s">>, <<"d","e","n","y">>, <<"a","p","p","r","o","v","e">>, <<"r","e","v","o","k","e">>,
      <<"s","u","s","p","e","n","d">>, <<"p","r","i","c","i","n","g">>, <<"p","r","i","c","e">>, <<"r","a","t","e">>, <<"q","u","o","t","e">>, <<"p","r","e","m","i","u","m">>,
      <<"c","r","e","d","i","t">>, <<"l","o","a","n">>, <<"i","n","s","u","r","a","n","c","e">>, <<"a","d","m","i","s","s","i","o","n">>, <<"s","e","l","e","c","t","i","o","n">>,
      <<"e","m","p","l","o","y","m","e","n","t">>, <<"t","e","r","m","i","n","a","t","i","o","n">> }

\* (product_area or "")
OrEmpty(t) == IF t = Absent THEN <<>> ELSE t

_infer_significant_effects(feature_description, product_area, purposes, processing_operations) ==
    LET desc == Lower(feature_description)
        area == Lower(OrEmpty(product_area))
        p == Lower(Join(purposes))
        ops == Lower(Join(processing_operations))
        profiling_signal ==
            \E x \in {<<"p","e","r","s","o","n","a","l","i","z","a","t","i","o","n">>, <<"p","e","r","s","o","n","a","l","i","s","a","t","i","o","n">>, <<"p","r","o","f","i","l","i","n","g">>, <<"t","a","r","g","e","t","i","n","g">>} : In(x, p)
        profiling_op_signal == In(<<"p","r","o","f","i","l">>, ops)
        significant_signal ==
            \/ \E k \in significant_keywords : In(k, desc)
            \/ \E k \in significant_keywords : In(k, area)
    IN  profiling_signal \/ profiling_op_signal \/ significant_signal

----------------------------------------------------------------------------
(* _dedupe_preserve_order                                                  *)

RECURSIVE DedupeFrom(_, _, _)
DedupeFrom(items, seen, out) ==
    IF items = <<>> THEN out
    ELSE IF Head(items) \in seen THEN DedupeFrom(Tail(items), seen, out)
    ELSE DedupeFrom(Tail(items), seen \cup {Head(items)}, Append(out, Head(items)))

\* a slip: nothing is ever recorded as seen
_dedupe_nothing_seen(items) == items

_dedupe_preserve_order(items) == DedupeFrom(items, {}, <<>>)

----------------------------------------------------------------------------
(* assess: the risk patterns                                               *)

RETENTION_LIMIT == 30
SCORE_LOW == 2
SCORE_MEDIUM == 6
SCORE_STORAGE == 7
SCORE_HIGH == 8
MATERIAL_SCORE == 5

RiskItem(id, impact, likelihood, score) ==
    [id |-> id, impact |-> impact, likelihood |-> likelihood, score |-> score]

\* the condition texts ("<=" is written for the sign U+2264 of the source)
COND_LOG_MINIMISE == "Implement content logging minimisation (log only what is necessary; avoid storing raw prompts where possible)."
COND_LOG_REDACT == "Apply redaction/PII filtering for logs and enforce strict access controls."
COND_LOG_DISCLOSE == "Document purposes for logging and communicate it transparently to users (privacy notice / in-product disclosure)."
COND_RETENTION == "Reduce retention to <= 30 days or document a necessity/proportionality justification with safeguards (e.g., aggregation, minimisation)."
COND_LAWFUL_BASIS == "Define and document the lawful basis (and, where relevant, complete LIA/consent design) before launch."
COND_VENDOR == "Verify vendor processor terms, sub-processor controls, retention commitments, and security due diligence."
COND_TRANSFER == "Confirm and document transfer mechanism (e.g., SCCs) and complete transfer risk assessment where required."
COND_TRAIN_TRANSPARENT == "Make training/reuse transparent in user-facing documentation and in-product disclosures, including consequences."
COND_TRAIN_OPT_OUT == "Implement an opt-out (or obtain consent where required by internal policy) for training/reuse of user content."
COND_TRAIN_MINIMISE == "Minimise and protect training datasets (e.g., exclude sensitive content by default; apply filtering and access controls)."
COND_AUTO_OVERSIGHT == "Document the role of automation and implement meaningful human oversight in practice."
COND_AUTO_CONTEST == "Provide transparency about automation and a route to contest outcomes or request human review where relevant."
COND_AUTO_MONITOR == "Implement monitoring and periodic review to detect drift, bias, or unexpected impacts."
COND_PURPOSE == "Clarify and document the specific purpose(s) and ensure processing is limited to those purposes (purpose limitation)."

\* the reason texts
REASON_MINORS == "Children/minors are within scope; heightened safeguards apply and escalation is required for governance review."
REASON_SPECIAL == "Special category data is indicated (including proxy categories such as biometric data); escalation is required."
REASON_AUTOMATION == "Automation is present with indicators of similarly significant effects; escalation is required for governance review."
REASON_SHIP_NO_TRIGGER == "No escalation triggers identified (no minors, no special category data, no significant-effects automation indicators)."
REASON_SHIP_RETENTION == "Retention is within 30 days and purposes align to safety/security or product improvement."
REASON_SHIP_LOGGING == "Content logging appears limited to security/safety purposes with short retention and no training/reuse indicators."
REASON_SHIP_RESIDUAL == "On the provided inputs, residual risks appear proportionate and controlled for an internal governance workflow."
REASON_SWC == "No automatic escalation trigger identified; however, one or more governance risks require documented safeguards before shipping."
REASON_SWC_PURPOSE == "Stated purposes do not clearly align with safety/security or product improvement; clarify purpose limitation and necessity."
REASON_SWC_RETENTION == "Proposed retention exceeds 30 days; storage limitation requires a necessity/proportionality justification."
REASON_SWC_AUTOMATION == "Automation is present without clear indicators of significant effects; transparency and oversight controls are required."

allowed_purposes ==
    { <<"s","a","f","e","t","y"," ","&"," ","s","e","c","u","r","i","t","y">>, <<"s","a","f","e","t","y"," ","/"," ","s","e","c","u","r","i","t","y">>, <<"s","a","f","e","t","y">>, <<"s","e","c","u","r","i","t","y">>,
      <<"p","r","o","d","u","c","t"," ","i","m","p","r","o","v","e","m","e","n","t">> }

\* vendors_involved is Optional[bool]: "True", "False" or "None"
Truthy(b) == b = "True"

\* has_minors, line 81
HasMinors(lower_subjects) ==
    \E n \in DOMAIN lower_subjects :
        \/ In(<<"c","h","i","l","d">>, lower_subjects[n])
        \/ In(<<"m","i","n","o","r">>, lower_subjects[n])
        \/ In(<<"c","h","i","l","d","r","e","n">>, lower_subjects[n])

\* lawful_basis_missing, lines 87-91
LawfulBasisMissing(lawful_basis_candidate) ==
    ~ ( /\ ~Falsy(lawful_basis_candidate)
        /\ Strip(lawful_basis_candidate) # <<>>
        /\ Lower(Strip(lawful_basis_candidate)) \notin {<<"u","n","k","n","o","w","n">>, <<"u","n","c","l","e","a","r">>} )

\* content_like, line 94
ContentLike(lower_categories) ==
    \E n \in DOMAIN lower_categories :
        \/ In(<<"c","o","n","t","e","n","t">>, lower_categories[n])
        \/ In(<<"p","r","o","m","p","t">>, lower_categories[n])
        \/ In(<<"f","r","e","e","-","t","e","x","t">>, lower_categories[n])
        \/ In(<<"f","r","e","e"," ","t","e","x","t">>, lower_categories[n])

\* logging_like, line 95
LoggingLike(lower_ops) == \E n \in DOMAIN lower_ops : In(<<"l","o","g">>, lower_ops[n])

\* has_automation, line 106
HasAutomation(lower_ops) ==
    \E n \in DOMAIN lower_ops : In(<<"a","u","t","o","m","a","t","e","d"," ","d","e","c","i","s","i","o","n">>, lower_ops[n])

\* purpose_ok, line 116
PurposeOk(lower_purposes) ==
    \E n \in DOMAIN lower_purposes : lower_purposes[n] \in allowed_purposes

\* security_purpose, line 123
SecurityPurpose(lower_purposes) ==
    \E n \in DOMAIN lower_purposes :
        In(<<"s","e","c","u","r","i","t","y">>, lower_purposes[n]) \/ In(<<"s","a","f","e","t","y">>, lower_purposes[n])

\* cross_border_ok, line 124
CrossBorderOk(cross_border_transfers) ==
    cross_border_transfers = Absent \/ cross_border_transfers \in {<<"N","o","n","e">>, <<"W","i","t","h","i","n"," ","E","E","A">>}

\* the condition of the International transfers pattern, line 217
TransfersFlagged(cross_border_transfers) ==
    ~Falsy(cross_border_transfers) /\ cross_border_transfers \notin {<<"N","o","n","e">>, <<"W","i","t","h","i","n"," ","E","E","A">>}

\* a slip: 30 days already count as over the limit
RetentionOver30_Inclusive(retention_days) ==
    retention_days.tag = "int" /\ retention_days.val >= RETENTION_LIMIT

\* retention_over_30, line 85
RetentionOver30(retention_days) ==
    retention_days.tag = "int" /\ retention_days.val > RETENTION_LIMIT

\* retention_ok, line 117
RetentionOk(retention_days) ==
    retention_days.tag = "None" \/ retention_days.val <= RETENTION_LIMIT

LowerAll(items) == [n \in DOMAIN items |-> Lower(items[n])]

\* the signals assess infers from a request, lines 71-117
Signals(r) ==
    LET lower_subjects == LowerAll(r.data_subjects)
        lower_categories == LowerAll(r.data_categories)
        lower_ops == LowerAll(r.processing_operations)
        lower_purposes == LowerAll(r.purposes)
        retention_days == _parse_retention_days(r.retention)
        content_like == ContentLike(lower_categories)
        logging_like == LoggingLike(lower_ops)
    IN  [ has_minors |-> HasMinors(lower_subjects),
          has_special_category |-> _has_special_category_data(r.data_categories),
          retention_days |-> retention_days,
          retention_over_30 |-> RetentionOver30(retention_days),
          lawful_basis_missing |-> LawfulBasisMissing(r.lawful_basis_candidate),
          content_logged |-> content_like /\ logging_like,
          training_or_reuse |->
              _infer_training_or_reuse(r.feature_description, r.processing_operations, r.purposes),
          has_automation |-> HasAutomation(lower_ops),
          inferred_significant_effects |->
              _infer_significant_effects(r.feature_description, r.product_area,
                                         r.purposes, r.processing_operations),
          purpose_ok |-> PurposeOk(lower_purposes),
          retention_ok |-> RetentionOk(retention_days),
          security_purpose |-> SecurityPurpose(lower_purposes) ]

\* what one risk pattern adds to the risks and to the conditions
Adds(risks, conditions) == [risks |-> risks, conditions |-> conditions]
Nothing == Adds(<<>>, <<>>)

\* lines 122-168
ContentSensitivity(r, g) ==
    IF ~g.content_logged THEN Nothing
    ELSE LET low_sensitivity ==
                 /\ g.security_purpose
                 /\ g.retention_days.tag = "int"
                 /\ g.retention_days.val <= RETENTION_LIMIT
                 /\ ~g.training_or_reuse
                 /\ CrossBorderOk(r.cross_border_transfers)
                 /\ ~Truthy(r.vendors_involved)
         IN  IF low_sensitivity
             THEN Adds(<<RiskItem("content_sensitivity_low", "low", "low", SCORE_LOW)>>, <<>>)
             ELSE Adds(<<RiskItem("content_sensitivity", "medium", "medium", SCORE_MEDIUM)>>,
                       <<COND_LOG_MINIMISE, COND_LOG_REDACT, COND_LOG_DISCLOSE>>)

\* lines 170-185
StorageLimitation(g) ==
    IF g.retention_over_30
    THEN Adds(<<RiskItem("storage_limitation", "medium", "high", SCORE_STORAGE)>>,
              <<COND_RETENTION>>)
    ELSE Nothing

\* lines 187-200
LawfulBasisUncertainty(g) ==
    IF g.lawful_basis_missing
    THEN Adds(<<RiskItem("lawful_basis_uncertainty", "medium", "medium", SCORE_MEDIUM)>>,
              <<COND_LAWFUL_BASIS>>)
    ELSE Nothing

\* lines 202-215
VendorProcessor(r) ==
    IF Truthy(r.vendors_involved)
    THEN Adds(<<RiskItem("vendor_processor", "medium", "medium", SCORE_MEDIUM)>>,
              <<COND_VENDOR>>)
    ELSE Nothing

\* lines 217-230
InternationalTransfers(r) ==
    IF TransfersFlagged(r.cross_border_transfers)
    THEN Adds(<<RiskItem("international_transfers", "medium", "medium", SCORE_MEDIUM)>>,
              <<COND_TRANSFER>>)
    ELSE Nothing

\* lines 232-251
TrainingReuse(g) ==
    IF g.training_or_reuse
    THEN LET grave == g.has_special_category \/ g.has_minors
         IN  Adds(<<RiskItem("training_or_reuse_user_content",
                             IF grave THEN "high" ELSE "medium", "medium",
                             IF grave THEN SCORE_HIGH ELSE SCORE_MEDIUM)>>,
                  <<COND_TRAIN_TRANSPARENT, COND_TRAIN_OPT_OUT, COND_TRAIN_MINIMISE>>)
    ELSE Nothing

\* lines 253-285
Automation(g) ==
    IF g.has_automation /\ g.inferred_significant_effects
    THEN Adds(<<RiskItem("automation_significant_effects", "high", "medium", SCORE_HIGH)>>, <<>>)
    ELSE IF g.has_automation /\ ~g.inferred_significant_effects
    THEN Adds(<<RiskItem("automation_advisory", "medium", "medium", SCORE_MEDIUM)>>,
              <<COND_AUTO_OVERSIGHT, COND_AUTO_CONTEST, COND_AUTO_MONITOR>>)
    ELSE Nothing

\* the patterns in the order assess runs them, lines 119-285
RiskPatterns(r, g) ==
    << ContentSensitivity(r, g), StorageLimitation(g), LawfulBasisUncertainty(g),
       VendorProcessor(r), InternationalTransfers(r), TrainingReuse(g), Automation(g) >>

RECURSIVE Concat(_)
Concat(seqs) == IF seqs = <<>> THEN <<>> ELSE Head(seqs) \o Concat(Tail(seqs))

----------------------------------------------------------------------------
(* assess: the decision                                                    *)

\* a slip: every impact, low included, counts as material
MaterialRisks_AnyImpact(risks) ==
    SelectSeq(risks, LAMBDA x : x.score >= MATERIAL_SCORE \/ x.impact \in {"low", "medium", "high"})

\* material_risks, line 290
MaterialRisks(risks) ==
    SelectSeq(risks, LAMBDA x : x.score >= MATERIAL_SCORE \/ x.impact \in {"medium", "high"})

\* lines 292-310
Decide(g, risks, conditions) ==
    IF g.has_minors THEN "ESCALATE"
    ELSE IF g.has_special_category THEN "ESCALATE"
    ELSE IF g.has_automation /\ g.inferred_significant_effects THEN "ESCALATE"
    ELSE IF ~g.retention_ok \/ ~g.purpose_ok THEN "SHIP WITH CONDITIONS"
    ELSE IF g.has_automation /\ ~g.inferred_significant_effects THEN "SHIP WITH CONDITIONS"
    ELSE IF MaterialRisks(risks) # <<>> \/ conditions # <<>> THEN "SHIP WITH CONDITIONS"
    ELSE "SHIP"

Opt(cond, x) == IF cond THEN <<x>> ELSE <<>>

\* the reasons, lines 292-327
Reasons(g, decision) ==
    IF g.has_minors THEN <<REASON_MINORS>>
    ELSE IF g.has_special_category THEN <<REASON_SPECIAL>>
    ELSE IF g.has_automation /\ g.inferred_significant_effects THEN <<REASON_AUTOMATION>>
    ELSE IF decision = "SHIP"
    THEN <<REASON_SHIP_NO_TRIGGER, REASON_SHIP_RETENTION,
           IF g.content_logged THEN REASON_SHIP_LOGGING ELSE REASON_SHIP_RESIDUAL>>
    ELSE <<REASON_SWC>>
         \o Opt(~g.purpose_ok, REASON_SWC_PURPOSE)
         \o Opt(~g.retention_ok, REASON_SWC_RETENTION)
         \o Opt(g.has_automation /\ ~g.inferred_significant_effects, REASON_SWC_AUTOMATION)

\* a slip: the purpose reason is given without its condition
DecisionConditions_None(g, decision) == <<>>

\* the conditions the decision step adds, line 323
DecisionConditions(g, decision) ==
    Opt(decision = "SHIP WITH CONDITIONS" /\ ~g.purpose_ok, COND_PURPOSE)

\* a slip: the conditions survive an escalation
ClearIfEscalated_Kept(decision, conditions) == conditions

\* lines 329-331
ClearIfEscalated(decision, conditions) ==
    IF decision = "ESCALATE" THEN <<>> ELSE conditions

----------------------------------------------------------------------------
(* _build_assumptions_and_followups and _render_markdown                   *)

ASSUME_RETENTION_UNPARSED == "Retention period could not be parsed; the assessment assumes retention is interpreted as provided by the feature team."
ASSUME_RETENTION_MISSING == "Retention period is not specified; the assessment assumes data is not retained beyond what is necessary for stated purposes."
ASSUME_AUTOMATION == "Automation is present based on selected processing operations."
ASSUME_TRAINING == "Training/reuse of user content is inferred from provided inputs or description keywords."
FOLLOW_RETENTION_UNPARSED == "Confirm the exact retention period in days and whether automated deletion is enforced."
FOLLOW_RETENTION_MISSING == "Confirm the retention period and deletion mechanism for logs and user content."
FOLLOW_AUTO_SIGNIFICANT == "Confirm whether automated outputs are used for access, eligibility, pricing, or other similarly significant decisions."
FOLLOW_AUTO_EFFECTS == "Confirm whether automation has any similarly significant effects for individuals (or is advisory only)."
FOLLOW_AUTO_OVERSIGHT == "Confirm the human oversight workflow and how users can contest outcomes where relevant."
FOLLOW_TRAIN_SCOPE == "Confirm whether user content is used for training/reuse, the scope (opt-in/opt-out), and the default setting."
FOLLOW_TRAIN_MINIMISE == "Confirm minimisation measures for training datasets (e.g., filtering, exclusion of sensitive content)."
FOLLOW_LAWFUL_BASIS == "Confirm the lawful basis and record the rationale in the governance documentation."
FOLLOW_VENDOR == "Confirm vendor roles, data flows, and the status of processor terms and security due diligence."
FOLLOW_TRANSFER == "Confirm transfer mechanism and whether a transfer risk assessment is required by internal policy."

\* lines 540-569; the result is the pair (assumptions, follow_ups)
_build_assumptions_and_followups(r, g) ==
    LET unparsed == g.retention_days.tag = "None" /\ ~Falsy(r.retention)
        missing == g.retention_days.tag = "None" /\ Falsy(r.retention)
        significant == g.has_automation /\ g.inferred_significant_effects
        advisory == g.has_automation /\ ~g.inferred_significant_effects
    IN  [ assumptions |->
              Opt(unparsed, ASSUME_RETENTION_UNPARSED)
              \o Opt(missing, ASSUME_RETENTION_MISSING)
              \o Opt(g.has_automation, ASSUME_AUTOMATION)
              \o Opt(g.training_or_reuse, ASSUME_TRAINING),
          follow_ups |->
              Opt(unparsed, FOLLOW_RETENTION_UNPARSED)
              \o Opt(missing, FOLLOW_RETENTION_MISSING)
              \o Opt(significant, FOLLOW_AUTO_SIGNIFICANT)
              \o Opt(advisory, FOLLOW_AUTO_EFFECTS)
              \o Opt(advisory, FOLLOW_AUTO_OVERSIGHT)
              \o Opt(g.training_or_reuse, FOLLOW_TRAIN_SCOPE)
              \o Opt(g.training_or_reuse, FOLLOW_TRAIN_MINIMISE)
              \o Opt(g.lawful_basis_missing, FOLLOW_LAWFUL_BASIS)
              \o Opt(Truthy(r.vendors_involved), FOLLOW_VENDOR)
              \o Opt(TransfersFlagged(r.cross_border_transfers), FOLLOW_TRANSFER) ]

\* a section of the report: its lines, or the placeholder of an empty list
Section(lines, placeholder) == IF lines = <<>> THEN <<placeholder>> ELSE lines

\* lines 357-399: the report, section by section
_render_markdown(r, decision, reasons, risks, conditions, assumptions, follow_ups) ==
    [ decision |-> decision,
      feature_name |-> r.feature_name,
      assumptions |-> Section(assumptions, "_None._"),
      rationale |-> Section(reasons, "_None provided._"),
      conditions |-> Section(conditions, "_None._"),
      risks |-> Section([n \in DOMAIN risks |-> <<risks[n].id, risks[n].impact, risks[n].likelihood>>],
                        "_No risks returned._"),
      follow_ups |-> Section(follow_ups, "_None._") ]

----------------------------------------------------------------------------
(* assess, lines 66-354                                                    *)

AssessmentResponse(decision, reasons, conditions, risks, markdown) ==
    [ status |-> "ok", decision |-> decision, reasons |-> reasons,
      conditions |-> conditions, risks |-> risks, markdown |-> markdown ]

\* no response: the call ended in the exception e
Raised(e) ==
    [ status |-> e, decision |-> "", reasons |-> <<>>, conditions |-> <<>>,
      risks |-> <<>>, markdown |-> <<>> ]

NoValue == <<>>

\* a slip: the three lists live outside the function, and a call finds in
\* them what the noted earlier call left there
ListsLeftBehind ==
    IF earlier = NoValue
    THEN [reasons |-> <<>>, conditions |-> <<>>, risks |-> <<>>]
    ELSE [reasons |-> earlier.resp.reasons, conditions |-> earlier.resp.conditions,
          risks |-> earlier.resp.risks]

\* lines 67-69: every call creates its three lists, empty
NewLists == [reasons |-> <<>>, conditions |-> <<>>, risks |-> <<>>]

\* assess from line 119 on, with the signals g of lines 71-117 at hand: the
\* response to request r and the values of the local variables at the return
AssessWith(r, g) ==
    LET adds == RiskPatterns(r, g)
        risks == NewLists.risks \o Concat([n \in DOMAIN adds |-> adds[n].risks])
        accumulated == NewLists.conditions \o Concat([n \in DOMAIN adds |-> adds[n].conditions])
        decision == Decide(g, risks, accumulated)
        reasons == NewLists.reasons \o Reasons(g, decision)
        extended == accumulated \o DecisionConditions(g, decision)
        cleared == ClearIfEscalated(decision, extended)
        conditions == _dedupe_preserve_order(cleared)
        notes == _build_assumptions_and_followups(r, g)
        markdown == _render_markdown(r, decision, reasons, risks, conditions,
                                     notes.assumptions, notes.follow_ups)
    IN  [ locals |-> [ signals |-> g, accumulated |-> accumulated,
                       extended |-> extended, deduped_from |-> cleared,
                       assumptions |-> notes.assumptions,
                       follow_ups |-> notes.follow_ups ],
          response |-> AssessmentResponse(decision, reasons, conditions, risks, markdown) ]

\* the call ends at line 82 when _parse_retention_days raises
AssessOrRaise(r, g) ==
    IF g.retention_days.tag = "raise"
    THEN [locals |-> [raised_at |-> "_parse_retention_days"], response |-> Raised("ValueError")]
    ELSE AssessWith(r, g)

\* the response of assess to request r, with the values of its local
\* variables when it returns
assess(r) == AssessOrRaise(r, Signals(r))

----------------------------------------------------------------------------
(* The inputs of the calls.                                                *)

\* at most this many entries in a list field of a request
MaxItems == 2
\* at most this many characters in an enumerated retention text
MaxText == 4
\* at most this many entries in a list given to _dedupe_preserve_order
MaxConds == 4

\* the lists of at most n entries of pool, in the order of pool
Pick(pool, I) ==
    LET F[k \in 0..Len(pool)] ==
            IF k = 0 THEN <<>>
            ELSE IF k \in I THEN Append(F[k - 1], pool[k]) ELSE F[k - 1]
    IN  F[Len(pool)]

SubLists(pool, n) ==
    {Pick(pool, I) : I \in {J \in SUBSET DOMAIN pool : Cardinality(J) <= n}}

SubjectPool == << <<"e","n","d"," ","u","s","e","r","s">>, <<"C","h","i","l","d","r","e","n">> >>
CategoryPool == << <<"c","o","n","t","e","n","t","/","p","r","o","m","p","t","s">>, <<"B","i","o","m","e","t","r","i","c"," ","t","e","m","p","l","a","t","e","s">> >>
OperationPool == << <<"l","o","g","g","i","n","g">>, <<"t","r","a","i","n","i","n","g">>, <<"a","u","t","o","m","a","t","e","d"," ","d","e","c","i","s","i","o","n">> >>
PurposePool == << <<"s","e","c","u","r","i","t","y">>, <<"S","e","c","u","r","i","t","y"," ","m","o","n","i","t","o","r","i","n","g">> >>
LawfulBasisPool == { <<"l","e","g","i","t","i","m","a","t","e"," ","i","n","t","e","r","e","s","t">>, <<"U","n","k","n","o","w","n">> }
RetentionPool == { Absent, <<"1","4"," ","d","a","y","s">>, <<"9","0"," ","d","a","y","s">>, <<"sup2">> }
VendorPool == { "False", "True" }
TransferPool == { <<"W","i","t","h","i","n"," ","E","E","A">>, <<"U","S">> }
\* feature_description and product_area
MatterPool ==
    { <<<<"S","u","m","m","a","r","i","s","e","s"," ","s","u","p","p","o","r","t"," ","c","h","a","t","s">>, Absent>>,
      <<<<"S","u","m","m","a","r","i","s","e","s"," ","s","u","p","p","o","r","t"," ","c","h","a","t","s">>, <<"l","o","a","n"," ","a","p","p","r","o","v","a","l","s">>>> }

AssessmentRequest(description, area, subjects, categories, operations, purposes, basis, retention, vendors, transfers) ==
    [ feature_name |-> "Feature",
      feature_description |-> description,
      product_area |-> area,
      data_subjects |-> subjects,
      data_categories |-> categories,
      processing_operations |-> operations,
      purposes |-> purposes,
      lawful_basis_candidate |-> basis,
      retention |-> retention,
      vendors_involved |-> vendors,
      cross_border_transfers |-> transfers ]

EnumeratedRequests ==
    { AssessmentRequest(m[1], m[2], su, ca, op, pu, lb, rt, ve, tr) :
        m \in MatterPool,
        su \in SubLists(SubjectPool, MaxItems),
        ca \in SubLists(CategoryPool, MaxItems),
        op \in SubLists(OperationPool, MaxItems),
        pu \in SubLists(PurposePool, MaxItems),
        lb \in LawfulBasisPool,
        rt \in RetentionPool,
        ve \in VendorPool,
        tr \in TransferPool }

\* the scenario of the specification's testable properties
BaseScenario ==
    AssessmentRequest(<<"L","o","g","s"," ","p","r","o","m","p","t","s"," ","t","o"," ","d","e","t","e","c","t"," ","a","b","u","s","e">>, Absent,
                      << <<"e","n","d"," ","u","s","e","r","s">> >>, << <<"c","o","n","t","e","n","t","/","p","r","o","m","p","t","s">>, <<"u","s","a","g","e"," ","l","o","g","s">> >>,
                      << <<"c","o","l","l","e","c","t","i","o","n">>, <<"s","t","o","r","a","g","e">>, <<"a","n","a","l","y","s","i","s">>, <<"l","o","g","g","i","n","g">> >>,
                      << <<"s","e","c","u","r","i","t","y">> >>, <<"l","e","g","i","t","i","m","a","t","e"," ","i","n","t","e","r","e","s","t">>, <<"1","4"," ","d","a","y","s">>,
                      "False", <<"N","o","n","e">>)

ExampleRetentions ==
    { Absent, <<>>, <<"4","5","d">>, <<"6"," ","m","o","n","t","h","s">>, <<"1"," ","y","e","a","r">>, <<"9","0">>, <<"a","b","c">>, <<"1","4"," ","d","a","y","s">>,
      <<"3","0"," ","d","a","y","s">>, <<"3","1"," ","d","a","y","s">>, <<"9","0"," ","d","a","y","s">>, <<"1"," ","y","e","a","r"," ","1","0"," ","d","a","y","s">>, <<"1","0"," ","d","a","y","s"," ","1"," ","y","e","a","r">>,
      <<"4","5","d","a","y","s">>, <<"2"," ","Y">>, <<"3"," ","m","o","n","t","h","s"," ","2"," ","d","a","y","s">>, <<"5"," ","m","i","n">>, <<" ","7"," ">>, <<"1","2"," ","M","o","n","t","h","s">>,
      <<"1"," ","m">>, <<" "," "," ">> }

ExampleSubjects ==
    { << <<"M","i","n","o","r","s"," ","(","u","n","d","e","r"," ","1","6",")">> >>, << <<"C","H","I","L","D">> >>, << <<"e","m","p","l","o","y","e","e","s">>, <<"s","c","h","o","o","l","c","h","i","l","d","r","e","n">> >>,
      << <<"c","u","s","t","o","m","e","r"," ","e","m","p","l","o","y","e","e","s">> >>, <<>> }

ExampleCategories ==
    { << <<"S","p","e","c","i","a","l"," ","C","a","t","e","g","o","r","y"," ","d","a","t","a">> >>, << <<"B","I","O","M","E","T","R","I","C"," ","a","c","c","e","s","s"," ","l","o","g","s">> >>, << <<"H","e","a","l","t","h">> >>,
      << <<"m","e","d","i","c","a","l"," ","h","i","s","t","o","r","y">> >>, << <<"G","e","n","e","t","i","c"," ","m","a","r","k","e","r","s">> >>, << <<"r","e","l","i","g","i","o","n">> >>,
      << <<"P","o","l","i","t","i","c","a","l"," ","o","p","i","n","i","o","n","s">> >>, << <<"s","e","x","u","a","l"," ","o","r","i","e","n","t","a","t","i","o","n">> >>,
      << <<"t","r","a","d","e"," ","u","n","i","o","n"," ","m","e","m","b","e","r","s","h","i","p">> >>, << <<"r","a","c","e">> >>, << <<"E","t","h","n","i","c","i","t","y">> >>,
      << <<"u","s","a","g","e"," ","l","o","g","s">>, <<" ","H","e","a","l","t","h"," ">> >>, << <<"f","r","e","e","-","t","e","x","t"," ","n","o","t","e","s">> >>, << <<"i","d","e","n","t","i","f","i","e","r","s">> >> }

ExampleOperations ==
    { << <<"l","o","g","g","i","n","g">>, <<"T","r","a","i","n","i","n","g">> >>, << <<"l","o","g","g","i","n","g">>, <<"m","o","d","e","l"," ","r","e","t","r","a","i","n","i","n","g">> >>,
      << <<"l","o","g","g","i","n","g">>, <<"A","u","t","o","m","a","t","e","d"," ","D","e","c","i","s","i","o","n","-","m","a","k","i","n","g">> >>, << <<"l","o","g","g","i","n","g">>, <<"p","r","o","f","i","l","i","n","g">> >>,
      << <<"c","o","l","l","e","c","t","i","o","n">>, <<"a","u","d","i","t"," ","l","o","g">> >> }

ExamplePurposes ==
    { << <<"S","a","f","e","t","y">> >>, << <<"s","a","f","e","t","y"," ","&"," ","s","e","c","u","r","i","t","y">> >>, << <<"p","r","o","d","u","c","t"," ","i","m","p","r","o","v","e","m","e","n","t">> >>,
      << <<"p","e","r","s","o","n","a","l","i","s","a","t","i","o","n">> >>, << <<"a","n","a","l","y","t","i","c","s">>, <<"s","e","c","u","r","i","t","y">> >>, <<>> }

ExampleLawfulBases == { Absent, <<>>, <<" "," ">>, <<"u","n","c","l","e","a","r">>, <<" ","U","N","K","N","O","W","N"," ">>, <<"c","o","n","s","e","n","t">> }

ExampleTransfers == { Absent, <<>>, <<"W","i","t","h","i","n"," ","E","E","A">>, <<"w","i","t","h","i","n"," ","e","e","a">>, <<"U","S"," ","(","S","C","C","s",")">> }

ExampleDescriptions ==
    { <<"W","e"," ","u","s","e"," ","l","o","g","s"," ","t","o"," ","i","m","p","r","o","v","e"," ","t","h","e"," ","m","o","d","e","l">>, <<"R","a","n","k","s"," ","l","o","a","n"," ","e","l","i","g","i","b","i","l","i","t","y">>,
      <<"L","o","g","s"," ","p","r","o","m","p","t","s",";"," ","n","o"," ","t","r","a","i","n","i","n","g"," ","o","n"," ","p","r","o","m","p","t","s">>, <<"W","e"," ","f","i","n","e","-","t","u","n","e"," ","o","n"," ","c","h","a","t","s">>,
      <<"W","e"," ","f","i","n","e","t","u","n","e"," ","o","n"," ","c","h","a","t","s">> }

\* the scenario with one field changed
ScenarioRequests ==
    {BaseScenario}
    \cup {[BaseScenario EXCEPT !.retention = x] : x \in ExampleRetentions}
    \cup {[BaseScenario EXCEPT !.data_subjects = x] : x \in ExampleSubjects}
    \cup {[BaseScenario EXCEPT !.data_categories = x] : x \in ExampleCategories}
    \cup {[BaseScenario EXCEPT !.processing_operations = x] : x \in ExampleOperations}
    \cup {[BaseScenario EXCEPT !.purposes = x] : x \in ExamplePurposes}
    \cup {[BaseScenario EXCEPT !.lawful_basis_candidate = x] : x \in ExampleLawfulBases}
    \cup {[BaseScenario EXCEPT !.cross_border_transfers = x] : x \in ExampleTransfers}
    \cup {[BaseScenario EXCEPT !.feature_description = x] : x \in ExampleDescriptions}
    \cup {[BaseScenario EXCEPT !.vendors_involved = x] : x \in {"True", "None"}}
    \cup {[BaseScenario EXCEPT !.product_area = <<"l","o","a","n"," ","a","p","p","r","o","v","a","l","s">>,
                               !.processing_operations = @ \o << <<"a","u","t","o","m","a","t","e","d"," ","d","e","c","i","s","i","o","n">> >>],
          [BaseScenario EXCEPT !.processing_operations = @ \o << <<"a","u","t","o","m","a","t","e","d"," ","d","e","c","i","s","i","o","n">> >>],
          [BaseScenario EXCEPT !.processing_operations = @ \o << <<"t","r","a","i","n","i","n","g">> >>],
          [BaseScenario EXCEPT !.processing_operations = @ \o << <<"t","r","a","i","n","i","n","g">> >>,
                               !.data_categories = << <<"c","o","n","t","e","n","t","/","p","r","o","m","p","t","s">>, <<"h","e","a","l","t","h">> >>]}

Requests == EnumeratedRequests \cup ScenarioRequests

RetentionAlphabet == { "1", "2", " ", "d", "m", "y", "x", "sup2" }

RECURSIVE Texts(_, _)
Texts(alphabet, n) ==
    IF n = 0 THEN {<<>>}
    ELSE LET shorter == Texts(alphabet, n - 1)
         IN  shorter \cup {Append(t, c) : t \in shorter, c \in alphabet}

RetentionTexts == Texts(RetentionAlphabet, MaxText) \cup ExampleRetentions

\* the descriptions, operations and purposes of the calls of
\* _infer_training_or_reuse: every keyword and phrase, negations, both at
\* once, and words that only resemble a keyword
TrainingDescriptions ==
    { <<"W","e"," ","t","r","a","i","n"," ","m","o","d","e","l","s"," ","o","n"," ","c","h","a","t","s">>, <<"W","e"," ","f","i","n","e","-","t","u","n","e"," ","o","n"," ","c","h","a","t","s">>, <<"W","e"," ","F","i","n","e","-","T","u","n","e"," ","w","e","e","k","l","y">>,
      <<"f","i","n","e"," ","t","u","n","e"," ","w","e","e","k","l","y">>, <<"W","e"," ","f","i","n","e","t","u","n","e"," ","o","n"," ","c","h","a","t","s">>, <<"U","s","e","d"," ","t","o"," ","i","m","p","r","o","v","e"," ","t","h","e"," ","m","o","d","e","l">>,
      <<"i","m","p","r","o","v","e"," ","m","o","d","e","l"," ","q","u","a","l","i","t","y">>, <<"M","o","d","e","l"," ","i","m","p","r","o","v","e","m","e","n","t">>, <<"W","e"," ","l","e","a","r","n"," ","f","r","o","m"," ","c","h","a","t","s">>,
      <<"W","e"," ","r","e","u","s","e"," ","p","r","o","m","p","t","s">>, <<"u","s","e"," ","p","r","o","m","p","t","s"," ","t","o"," ","i","m","p","r","o","v","e">>, <<"u","s","e"," ","l","o","g","s"," ","t","o"," ","i","m","p","r","o","v","e">>,
      <<"u","s","e"," ","l","o","g","s"," ","f","o","r"," ","t","r","a","i","n","i","n","g">>, <<"N","o"," ","t","r","a","i","n","i","n","g"," ","o","n"," ","p","r","o","m","p","t","s">>, <<"P","r","o","m","p","t","s"," ","a","r","e"," ","n","o","t"," ","u","s","e","d"," ","f","o","r"," ","t","r","a","i","n","i","n","g">>,
      <<"W","e"," ","d","o"," ","n","o","t"," ","t","r","a","i","n"," ","o","n"," ","c","h","a","t","s">>, <<"w","i","t","h","o","u","t"," ","a","n","y"," ","f","i","n","e","-","t","u","n","e">>, <<"W","o","r","k","s"," ","w","i","t","h","o","u","t"," "," ","f","i","n","e","t","u","n","e">>,
      <<"N","o"," ","t","r","a","i","n","i","n","g"," ","b","u","t"," ","w","e"," ","l","e","a","r","n"," ","f","r","o","m"," ","c","h","a","t","s">>, <<"n","o","t"," ","t","r","a","i","n","e","d",";"," ","w","e"," ","r","e","u","s","e"," ","p","r","o","m","p","t","s">>,
      <<"T","r","a","i","n","e","r"," ","d","a","s","h","b","o","a","r","d","s">>, <<"S","u","m","m","a","r","i","s","e","s"," ","s","u","p","p","o","r","t"," ","c","h","a","t","s">>, <<"u","n","f","i","n","e","t","u","n","e","d"," ","b","a","s","e","l","i","n","e">> }

TrainingOperations ==
    { <<>>, << <<"l","o","g","g","i","n","g">> >>, << <<"l","o","g","g","i","n","g">>, <<"M","o","d","e","l"," ","T","r","a","i","n","i","n","g">> >>, << <<"r","e","t","r","a","i","n"," ","n","i","g","h","t","l","y">> >> }

TrainingPurposes ==
    { <<>>, << <<"s","e","c","u","r","i","t","y">> >>, << <<"a","n","a","l","y","t","i","c","s">>, <<"l","e","a","r","n"," ","f","r","o","m"," ","u","s","a","g","e">> >>, << <<"n","o"," ","t","r","a","i","n","i","n","g">> >> }

ConditionLists == Texts({COND_RETENTION, COND_LAWFUL_BASIS, COND_VENDOR}, MaxConds)

----------------------------------------------------------------------------
(* The program: a call of assess, or of one of its helper functions, runs  *)
(* to its return; nothing is kept from one call to the next.               *)

Init ==
    /\ pc = "idle"
    /\ call = "none"
    /\ req = NoValue
    /\ locals = NoValue
    /\ resp = NoValue
    /\ arg = NoValue
    /\ ret = NoValue
    /\ earlier = NoValue

\* POST /assess: a validated request reaches the handler
Post ==
    /\ pc = "idle"
    /\ \E r \in Requests : req' = r
    /\ pc' = "called"
    /\ call' = "assess"
    /\ UNCHANGED <<locals, resp, arg, ret, earlier>>

\* the handler runs to its return, or to the exception that ends it
Assess ==
    /\ pc = "called"
    /\ call = "assess"
    /\ LET result == assess(req)
       IN  /\ locals' = result.locals
           /\ resp' = result.response
    /\ pc' = "returned"
    /\ UNCHANGED <<call, req, arg, ret, earlier>>

\* a call of _parse_retention_days
ParseRetentionDays ==
    /\ pc = "idle"
    /\ \E t \in RetentionTexts :
        /\ arg' = t
        /\ ret' = _parse_retention_days(t)
    /\ pc' = "returned"
    /\ call' = "_parse_retention_days"
    /\ UNCHANGED <<req, locals, resp, earlier>>

\* a call of _infer_training_or_reuse
InferTrainingOrReuse ==
    /\ pc = "idle"
    /\ \E d \in TrainingDescriptions, o \in TrainingOperations, p \in TrainingPurposes :
        /\ arg' = [feature_description |-> d, processing_operations |-> o, purposes |-> p]
        /\ ret' = _infer_training_or_reuse(d, o, p)
    /\ pc' = "returned"
    /\ call' = "_infer_training_or_reuse"
    /\ UNCHANGED <<req, locals, resp, earlier>>

\* a call of _dedupe_preserve_order
DedupePreserveOrder ==
    /\ pc = "idle"
    /\ \E items \in ConditionLists :
        /\ arg' = items
        /\ ret' = _dedupe_preserve_order(items)
    /\ pc' = "returned"
    /\ call' = "_dedupe_preserve_order"
    /\ UNCHANGED <<req, locals, resp, earlier>>

\* how a call of assess ended: its decision, or the exception
Outcome(response) == IF response.status = "ok" THEN response.decision ELSE response.status

\* the observer adds the call that is ending to the calls seen since the
\* noted one
Noted(e) ==
    IF e = NoValue \/ call # "assess" THEN e
    ELSE [e EXCEPT !.between = @ \cup {Outcome(resp)}]

\* the call is over: its request, locals and result are discarded
Return ==
    /\ pc = "returned"
    /\ pc' = "idle"
    /\ call' = "none"
    /\ req' = NoValue
    /\ locals' = NoValue
    /\ resp' = NoValue
    /\ arg' = NoValue
    /\ ret' = NoValue
    /\ earlier' = Noted(earlier)

Next ==
    Post \/ Assess \/ ParseRetentionDays \/ InferTrainingOrReuse \/ DedupePreserveOrder \/ Return

Spec == Init /\ [][Next]_vars

----------------------------------------------------------------------------
(* Calls of assess one after the other, an observer noting one of them to  *)
(* compare a later call of the same request with it.                       *)

\* the requests the observer may note
RepeatedRequests ==
    { BaseScenario,
      [BaseScenario EXCEPT !.retention = <<"9","0"," ","d","a","y","s">>, !.vendors_involved = "True",
                           !.cross_border_transfers = <<"U","S"," ","(","S","C","C","s",")">>],
      [BaseScenario EXCEPT !.data_subjects = << <<"C","h","i","l","d","r","e","n">> >>,
                           !.lawful_basis_candidate = <<"U","n","k","n","o","w","n">>],
      [BaseScenario EXCEPT !.processing_operations = @ \o << <<"t","r","a","i","n","i","n","g">> >>,
                           !.data_categories = << <<"c","o","n","t","e","n","t","/","p","r","o","m","p","t","s">>, <<"h","e","a","l","t","h">> >>],
      [BaseScenario EXCEPT !.processing_operations = @ \o << <<"a","u","t","o","m","a","t","e","d"," ","d","e","c","i","s","i","o","n">> >>],
      [BaseScenario EXCEPT !.retention = <<"sup2">>] }

SequenceRequests == ScenarioRequests \cup RepeatedRequests

\* POST /assess, the request one of the scenario's
PostInSequence ==
    /\ pc = "idle"
    /\ \E r \in SequenceRequests : req' = r
    /\ pc' = "called"
    /\ call' = "assess"
    /\ UNCHANGED <<locals, resp, arg, ret, earlier>>

\* the call is over and the observer notes its request and its result
Remember ==
    /\ pc = "returned"
    /\ call = "assess"
    /\ earlier = NoValue
    /\ req \in RepeatedRequests
    /\ earlier' = [req |-> req, resp |-> resp, between |-> {}]
    /\ pc' = "idle"
    /\ call' = "none"
    /\ req' = NoValue
    /\ locals' = NoValue
    /\ resp' = NoValue
    /\ arg' = NoValue
    /\ ret' = NoValue

NextInSequence == PostInSequence \/ Assess \/ Remember \/ Return

SpecSequence == Init /\ [][NextInSequence]_vars

----------------------------------------------------------------------------
(* What the claims speak about, stated on the request and the response.    *)

\* a call of f has returned (or ended in an exception)
Returned(f) == pc = "returned" /\ call = f

\* assess has returned a response
Responded == Returned("assess") /\ resp.status = "ok"

ToUpper == [c \in LowerSet |-> UpperLetters[CHOOSE i \in DOMAIN LowerLetters : LowerLetters[i] = c]]

Upper(s) == [i \in DOMAIN s |-> IF s[i] \in LowerSet THEN ToUpper[s[i]] ELSE s[i]]

\* word occurs in text, in any letter case
OccursAnyCase(word, text) == In(Upper(word), Upper(text))

MinorWords == { <<"m","i","n","o","r">>, <<"c","h","i","l","d">>, <<"c","h","i","l","d","r","e","n">> }

SpecialCategoryWords ==
    { <<"s","p","e","c","i","a","l"," ","c","a","t","e","g","o","r","y">>, <<"b","i","o","m","e","t","r","i","c">>, <<"h","e","a","l","t","h">>, <<"m","e","d","i","c","a","l">>, <<"g","e","n","e","t","i","c">>,
      <<"r","e","l","i","g","i","o","n">>, <<"p","o","l","i","t","i","c","a","l">>, <<"s","e","x","u","a","l">>, <<"u","n","i","o","n">>, <<"r","a","c","e">>, <<"e","t","h","n","i","c">> }

MinorsNamed(r) ==
    \E n \in DOMAIN r.data_subjects : \E w \in MinorWords : OccursAnyCase(w, r.data_subjects[n])

SpecialCategoryNamed(r) ==
    \E n \in DOMAIN r.data_categories :
        \E w \in SpecialCategoryWords : OccursAnyCase(w, r.data_categories[n])

AutomatedDecisionNamed(r) ==
    \E n \in DOMAIN r.processing_operations :
        OccursAnyCase(<<"a","u","t","o","m","a","t","e","d"," ","d","e","c","i","s","i","o","n">>, r.processing_operations[n])

TrainingNamed(r) ==
    \E n \in DOMAIN r.processing_operations : OccursAnyCase(<<"t","r","a","i","n">>, r.processing_operations[n])

SignificantEffects(r) ==
    _infer_significant_effects(r.feature_description, r.product_area, r.purposes,
                               r.processing_operations)

EscalationTrigger(r) ==
    \/ MinorsNamed(r)
    \/ SpecialCategoryNamed(r)
    \/ AutomatedDecisionNamed(r) /\ SignificantEffects(r)

RiskIds(risks) == {risks[n].id : n \in DOMAIN risks}

HasRisk(risks, id, impact, score) ==
    \E n \in DOMAIN risks :
        risks[n].id = id /\ risks[n].impact = impact /\ risks[n].score = score

AutomationConditions == {COND_AUTO_OVERSIGHT, COND_AUTO_CONTEST, COND_AUTO_MONITOR}
TrainingConditions == {COND_TRAIN_TRANSPARENT, COND_TRAIN_OPT_OUT, COND_TRAIN_MINIMISE}

----------------------------------------------------------------------------
(* C1 *)

\* C1: whenever assess returns a response whose decision is ESCALATE, the
\* conditions of the response are the empty sequence, whatever the risk
\* patterns accumulated.
C1_EscalateHasNoConditions ==
    Responded /\ resp.decision = "ESCALATE" => resp.conditions = <<>>

\* an escalated response whose risk patterns had accumulated conditions
C1_Witness ==
    /\ Responded
    /\ resp.decision = "ESCALATE"
    /\ Len(locals.accumulated) >= 3
    /\ resp.conditions = <<>>

----------------------------------------------------------------------------
(* C2 *)

\* C2: for every request with a data subject naming minors or children (in
\* any letter case) assess returns ESCALATE with empty conditions, whatever
\* the other fields (the retention among them) hold.
C2_MinorsEscalate ==
    Returned("assess") /\ MinorsNamed(req) =>
        /\ resp.status = "ok"
        /\ resp.decision = "ESCALATE"
        /\ resp.conditions = <<>>

\* what does hold: whenever assess returns a response for such a request,
\* it is ESCALATE with empty conditions
C2_WhenResponded ==
    Responded /\ MinorsNamed(req) =>
        resp.decision = "ESCALATE" /\ resp.conditions = <<>>

----------------------------------------------------------------------------
(* C3 *)

\* C3: for every request with a data category that contains a special-
\* category keyword (in any letter case, as a substring) assess returns
\* ESCALATE, whatever the other fields hold.
C3_SpecialCategoryEscalates ==
    Returned("assess") /\ SpecialCategoryNamed(req) =>
        resp.status = "ok" /\ resp.decision = "ESCALATE"

\* what does hold: a response to such a request is ESCALATE
C3_WhenResponded ==
    Responded /\ SpecialCategoryNamed(req) => resp.decision = "ESCALATE"

----------------------------------------------------------------------------
(* C4 *)

\* C4: for every request with an "automated decision" operation and inferred
\* significant effects assess returns ESCALATE, with the risk
\* automation_significant_effects (impact high, score 8), without the risk
\* automation_advisory and without any of the automation oversight conditions.
C4_Consequent ==
    /\ resp.decision = "ESCALATE"
    /\ HasRisk(resp.risks, "automation_significant_effects", "high", 8)
    /\ "automation_advisory" \notin RiskIds(resp.risks)
    /\ Range(resp.conditions) \cap AutomationConditions = {}

C4_SignificantAutomationEscalates ==
    Returned("assess") /\ AutomatedDecisionNamed(req) /\ SignificantEffects(req) =>
        resp.status = "ok" /\ C4_Consequent

\* what does hold: a response to such a request is as the claim says
C4_WhenResponded ==
    Responded /\ AutomatedDecisionNamed(req) /\ SignificantEffects(req) => C4_Consequent

----------------------------------------------------------------------------
(* C5 *)

\* the five grounds for SHIP WITH CONDITIONS, read from the request, the
\* risks of the response and the conditions of the risk patterns
C5_Grounds ==
    LET days == _parse_retention_days(req.retention)
    IN  \/ days.tag = "int" /\ days.val > 30
        \/ ~ \E n \in DOMAIN req.purposes : Lower(req.purposes[n]) \in allowed_purposes
        \/ AutomatedDecisionNamed(req) /\ ~SignificantEffects(req)
        \/ \E n \in DOMAIN resp.risks :
               resp.risks[n].score >= 5 \/ resp.risks[n].impact \in {"medium", "high"}
        \/ locals.accumulated # <<>>

\* C5: for every request without escalation trigger the decision is SHIP WITH
\* CONDITIONS exactly when one of the five grounds holds and SHIP otherwise;
\* the decision is always SHIP, SHIP WITH CONDITIONS or ESCALATE.
C5_DecisionTable ==
    Returned("assess") =>
        /\ resp.status = "ok"
        /\ resp.decision \in {"SHIP", "SHIP WITH CONDITIONS", "ESCALATE"}
        /\ ~EscalationTrigger(req) =>
               resp.decision = IF C5_Grounds THEN "SHIP WITH CONDITIONS" ELSE "SHIP"

\* what does hold: the decision of every response follows the table
C5_WhenResponded ==
    Responded =>
        /\ resp.decision \in {"SHIP", "SHIP WITH CONDITIONS", "ESCALATE"}
        /\ ~EscalationTrigger(req) =>
               resp.decision = IF C5_Grounds THEN "SHIP WITH CONDITIONS" ELSE "SHIP"

----------------------------------------------------------------------------
(* C6 *)

FirstIndex(items, x) == CHOOSE i \in DOMAIN items : items[i] = x /\ \A k \in 1..(i - 1) : items[k] # x

\* out is items with every later repeat removed
FirstOccurrences(items, out) ==
    /\ \A i, j \in DOMAIN out : i # j => out[i] # out[j]
    /\ Range(out) = Range(items)
    /\ \A i, j \in DOMAIN out : i < j => FirstIndex(items, out[i]) < FirstIndex(items, out[j])

\* C6: the conditions of a response hold no string twice and are the
\* conditions accumulated by the risk patterns and the decision step (the
\* list assess hands to _dedupe_preserve_order) with every later repeat
\* removed; _dedupe_preserve_order does this for every list it is given.
C6_ConditionsDeduplicated ==
    /\ Responded => FirstOccurrences(locals.deduped_from, resp.conditions)
    /\ Returned("_dedupe_preserve_order") => FirstOccurrences(arg, ret)

\* a response with the conditions of several risk patterns and of the
\* decision step
C6_Witness ==
    /\ Responded
    /\ Len(locals.accumulated) >= 4
    /\ COND_PURPOSE \in Range(resp.conditions)
    /\ resp.conditions = locals.extended

\* the lists assess hands to _dedupe_preserve_order never hold a repeat
C6_NoRepeatAccumulated ==
    Responded => \A i, j \in DOMAIN locals.deduped_from :
                     i # j => locals.deduped_from[i] # locals.deduped_from[j]

----------------------------------------------------------------------------
(* C7 *)

RetentionOf(r) == _parse_retention_days(r.retention)

TrainingSignal(r) ==
    _infer_training_or_reuse(r.feature_description, r.processing_operations, r.purposes)

\* the request of C7: content logged for a security or safety purpose,
\* short retention, a stated lawful basis, and nothing else of note
C7_Premise(r) ==
    /\ ~MinorsNamed(r)
    /\ ~SpecialCategoryNamed(r)
    /\ \E n \in DOMAIN r.data_categories :
           \/ OccursAnyCase(<<"c","o","n","t","e","n","t">>, r.data_categories[n])
           \/ OccursAnyCase(<<"p","r","o","m","p","t">>, r.data_categories[n])
    /\ \E n \in DOMAIN r.processing_operations : OccursAnyCase(<<"l","o","g">>, r.processing_operations[n])
    /\ \E n \in DOMAIN r.purposes : Upper(r.purposes[n]) \in {<<"S","E","C","U","R","I","T","Y">>, <<"S","A","F","E","T","Y">>}
    /\ RetentionOf(r).tag = "int"
    /\ RetentionOf(r).val <= 30
    /\ r.lawful_basis_candidate # Absent
    /\ Strip(r.lawful_basis_candidate) # <<>>
    /\ Upper(Strip(r.lawful_basis_candidate)) \notin {<<"U","N","K","N","O","W","N">>, <<"U","N","C","L","E","A","R">>}
    /\ r.vendors_involved = "False"
    /\ r.cross_border_transfers \in {Absent, <<"N","o","n","e">>, <<"W","i","t","h","i","n"," ","E","E","A">>}
    /\ ~TrainingSignal(r)
    /\ ~AutomatedDecisionNamed(r)

\* C7: for every such request assess returns SHIP, the single risk
\* content_sensitivity_low (impact low, score 2) and no conditions.
C7_SecurityLoggingShips ==
    Returned("assess") /\ C7_Premise(req) =>
        /\ resp.status = "ok"
        /\ resp.decision = "SHIP"
        /\ Len(resp.risks) = 1
        /\ HasRisk(resp.risks, "content_sensitivity_low", "low", 2)
        /\ resp.conditions = <<>>

\* the response to the 14-days scenario
C7_Witness ==
    /\ Responded
    /\ req = BaseScenario
    /\ C7_Premise(req)
    /\ resp.decision = "SHIP"

----------------------------------------------------------------------------
(* C8 *)

RetentionAbove30(r) == RetentionOf(r).tag = "int" /\ RetentionOf(r).val > 30

\* C8: for every request whose retention parses to more than 30 days and
\* that has no escalation trigger assess returns SHIP WITH CONDITIONS, the
\* risk storage_limitation (impact medium, likelihood high, score 7) and the
\* retention condition; and a response holds a storage_limitation risk
\* exactly when the retention parses to more than 30 days.
C8_LongRetentionNeedsConditions ==
    /\ Returned("assess") /\ RetentionAbove30(req) /\ ~EscalationTrigger(req) =>
           /\ resp.status = "ok"
           /\ resp.decision = "SHIP WITH CONDITIONS"
           /\ \E n \in DOMAIN resp.risks :
                  resp.risks[n] = [id |-> "storage_limitation", impact |-> "medium",
                                   likelihood |-> "high", score |-> 7]
           /\ COND_RETENTION \in Range(resp.conditions)
    /\ Responded => ("storage_limitation" \in RiskIds(resp.risks) <=> RetentionAbove30(req))

\* the response to the scenario with a retention of 90 days
C8_Witness ==
    /\ Responded
    /\ req = [BaseScenario EXCEPT !.retention = <<"9","0"," ","d","a","y","s">>]
    /\ resp.decision = "SHIP WITH CONDITIONS"
    /\ "storage_limitation" \in RiskIds(resp.risks)

----------------------------------------------------------------------------
(* C9 *)

C9_Consequent ==
    /\ TrainingSignal(req)
    /\ "training_or_reuse_user_content" \in RiskIds(resp.risks)
    /\ resp.decision # "ESCALATE" =>
           /\ TrainingConditions \subseteq Range(resp.conditions)
           /\ resp.decision = "SHIP WITH CONDITIONS"
    /\ resp.decision = "ESCALATE" => resp.conditions = <<>>

\* C9: for every request with a processing operation containing "train",
\* training_or_reuse is true and the response lists the risk
\* training_or_reuse_user_content; unless escalated it is SHIP WITH CONDITIONS
\* with the three training conditions, and when escalated it has no
\* conditions.
C9_TrainingOperation ==
    Returned("assess") /\ TrainingNamed(req) => resp.status = "ok" /\ C9_Consequent

\* what does hold: a response to such a request is as the claim says
C9_WhenResponded ==
    Responded /\ TrainingNamed(req) => C9_Consequent

----------------------------------------------------------------------------
(* C10 *)

AllDecimal(s) == s # <<>> /\ \A i \in DOMAIN s : s[i] \in DecimalSet

\* the rule of C10: days before months before years before a bare number
C10_Rule(t) ==
    LET s == IF t = Absent THEN <<>> ELSE Lower(Strip(t))
        d == SearchQuantity(s, DayUnits)
        m == SearchQuantity(s, MonthUnits)
        y == SearchQuantity(s, YearUnits)
    IN  IF d # <<>> THEN Some(DecimalValue(d))
        ELSE IF m # <<>> THEN Some(DecimalValue(m) * 30)
        ELSE IF y # <<>> THEN Some(DecimalValue(y) * 365)
        ELSE IF AllDecimal(s) THEN Some(DecimalValue(s))
        ELSE None

C10_Examples ==
    /\ arg = <<"4","5","d">> => ret = Some(45)
    /\ arg = <<"6"," ","m","o","n","t","h","s">> => ret = Some(180)
    /\ arg = <<"1"," ","y","e","a","r">> => ret = Some(365)
    /\ arg = <<"9","0">> => ret = Some(90)
    /\ arg \in {<<>>, Absent, <<"a","b","c">>} => ret = None
    /\ arg \in {<<"1"," ","y","e","a","r"," ","1","0"," ","d","a","y","s">>, <<"1","0"," ","d","a","y","s"," ","1"," ","y","e","a","r">>} => ret = Some(10)

\* C10: _parse_retention_days returns the day quantity, else thirty times
\* the month quantity, else 365 times the year quantity, else the value of
\* an all-digit string, else absent.
C10_RetentionParsing ==
    Returned("_parse_retention_days") => C10_Examples /\ ret = C10_Rule(arg)

\* what does hold: every value _parse_retention_days returns follows the rule
C10_WhenReturned ==
    Returned("_parse_retention_days") /\ ret.tag # "raise" => C10_Examples /\ ret = C10_Rule(arg)

----------------------------------------------------------------------------
----------------------------------------------------------------------------
RetentionAssumptions == {ASSUME_RETENTION_UNPARSED, ASSUME_RETENTION_MISSING}
RetentionFollowUps == {FOLLOW_RETENTION_UNPARSED, FOLLOW_RETENTION_MISSING}

\* the retention notes among the assumptions and the follow-ups, as a pair of
\* lists
RetentionNotes ==
    << SelectSeq(locals.assumptions, LAMBDA x : x \in RetentionAssumptions),
       SelectSeq(locals.follow_ups, LAMBDA x : x \in RetentionFollowUps) >>

\* the request's retention is absent, empty, blank or does not parse to a
\* number by the rule of C10
NoRetentionNumber(r) == C10_Rule(r.retention) = None

C12_Consequent ==
    /\ resp.status = "ok"
    /\ IF NoRetentionNumber(req)
       THEN /\ locals.signals.retention_days = None
            /\ "storage_limitation" \notin RiskIds(resp.risks)
            /\ RetentionNotes =
                 IF Falsy(req.retention)
                 THEN << <<ASSUME_RETENTION_MISSING>>, <<FOLLOW_RETENTION_MISSING>> >>
                 ELSE << <<ASSUME_RETENTION_UNPARSED>>, <<FOLLOW_RETENTION_UNPARSED>> >>
       ELSE RetentionNotes = << <<>>, <<>> >>

\* C12: a retention that is absent, empty, blank or unparseable never makes
\* assess fail: it returns a response with retention_days absent, no
\* storage_limitation risk and exactly one retention assumption and one
\* retention follow-up (the "could not be parsed" pair for a non-empty text,
\* the "not specified" pair for an absent or empty one); a retention that
\* parses to a number produces neither.
C12_RetentionNeverFails == Returned("assess") => C12_Consequent

\* what does hold: the same of every call that returns a response
C12_WhenResponded == Responded => C12_Consequent

----------------------------------------------------------------------------
\* the lower-cased description+purposes text
Haystack(description, purposes) == Lower(description) \o <<" ">> \o Lower(Join(purposes))

\* some processing operation contains "train"
OperationTrains(operations) == \E n \in DOMAIN operations : In(<<"t","r","a","i","n">>, Lower(operations[n]))

ListedWords == { <<"t","r","a","i","n">>, <<"f","i","n","e","-","t","u","n","e">>, <<"f","i","n","e","t","u","n","e">> }

ListedPhrases ==
    { <<"i","m","p","r","o","v","e"," ","t","h","e"," ","m","o","d","e","l">>, <<"i","m","p","r","o","v","e"," ","m","o","d","e","l">>, <<"m","o","d","e","l"," ","i","m","p","r","o","v","e","m","e","n","t">>, <<"l","e","a","r","n"," ","f","r","o","m">>,
      <<"r","e","u","s","e"," ","p","r","o","m","p","t","s">>, <<"u","s","e"," ","p","r","o","m","p","t","s"," ","t","o"," ","i","m","p","r","o","v","e">>, <<"u","s","e"," ","l","o","g","s"," ","t","o"," ","i","m","p","r","o","v","e">>,
      <<"u","s","e"," ","l","o","g","s"," ","f","o","r"," ","t","r","a","i","n","i","n","g">> }

\* the text contains an entry of the keyword list: a listed word as a whole
\* word or a listed phrase anywhere
ListedKeyword(h) == WholeWord(h, ListedWords) \/ \E x \in ListedPhrases : In(x, h)

\* no operation trains, no negation matches, and a keyword is there
C13_Premise(description, operations, purposes) ==
    /\ ~OperationTrains(operations)
    /\ ~negation_patterns(Haystack(description, purposes))
    /\ ListedKeyword(Haystack(description, purposes))

\* C13: with no operation containing "train" and no negation pattern
\* matching, _infer_training_or_reuse returns true whenever the text holds
\* "train", "fine-tune" or "finetune" as a whole word or one of the listed
\* phrases; assess then sets training_or_reuse and emits the
\* training_or_reuse_user_content risk.
C13_KeywordListDecides ==
    /\ Returned("_infer_training_or_reuse")
         /\ C13_Premise(arg.feature_description, arg.processing_operations, arg.purposes)
       => ret = TRUE
    /\ Responded /\ C13_Premise(req.feature_description, req.processing_operations, req.purposes)
       => /\ locals.signals.training_or_reuse
          /\ "training_or_reuse_user_content" \in RiskIds(resp.risks)

\* what does hold: the same of the list without the word "fine-tune"
C13_WithoutFineTune ==
    /\ Returned("_infer_training_or_reuse")
         /\ C13_Premise(arg.feature_description, arg.processing_operations, arg.purposes)
         /\ ~WholeWord(Haystack(arg.feature_description, arg.purposes), {<<"f","i","n","e","-","t","u","n","e">>})
       => ret = TRUE
    /\ Responded /\ C13_Premise(req.feature_description, req.processing_operations, req.purposes)
         /\ ~WholeWord(Haystack(req.feature_description, req.purposes), {<<"f","i","n","e","-","t","u","n","e">>})
       => /\ locals.signals.training_or_reuse
          /\ "training_or_reuse_user_content" \in RiskIds(resp.risks)

\* C14: _infer_training_or_reuse applies its checks in strict priority: an
\* operation containing "train" gives true even over a negation; otherwise a
\* negation gives false even over a keyword or phrase; only otherwise is the
\* result true, and then on a listed keyword.
C14_StrictPriority ==
    Returned("_infer_training_or_reuse") =>
        LET h == Haystack(arg.feature_description, arg.purposes)
        IN  IF OperationTrains(arg.processing_operations) THEN ret = TRUE
            ELSE IF negation_patterns(h) THEN ret = FALSE
            ELSE ret = TRUE => ListedKeyword(h)

\* a negation and the phrase "learn from" in one text, and no operation that
\* trains: the result is false
C14_Witness ==
    /\ Returned("_infer_training_or_reuse")
    /\ ~OperationTrains(arg.processing_operations)
    /\ negation_patterns(Haystack(arg.feature_description, arg.purposes))
    /\ In(<<"l","e","a","r","n"," ","f","r","o","m">>, Haystack(arg.feature_description, arg.purposes))
    /\ ret = FALSE

----------------------------------------------------------------------------
LoggingConditions == {COND_LOG_MINIMISE, COND_LOG_REDACT, COND_LOG_DISCLOSE}

\* how many risks of the response carry one of the ids
CountRisks(risks, ids) == Cardinality({n \in DOMAIN risks : risks[n].id \in ids})

\* the conditions of the low variant other than the cross-border one
C15_OtherFour(r, g) ==
    /\ g.security_purpose
    /\ g.retention_days.tag = "int"
    /\ g.retention_days.val <= 30
    /\ ~g.training_or_reuse
    /\ r.vendors_involved # "True"

\* cross_border_transfers is absent, "None" or "Within EEA"
C15_TransfersAtHome(r) == r.cross_border_transfers \in {Absent, <<"N","o","n","e">>, <<"W","i","t","h","i","n"," ","E","E","A">>}

C15_Consequent ==
    LET g == locals.signals
        low == HasRisk(resp.risks, "content_sensitivity_low", "low", SCORE_LOW)
        default == HasRisk(resp.risks, "content_sensitivity", "medium", SCORE_MEDIUM)
    IN  /\ CountRisks(resp.risks, {"content_sensitivity_low", "content_sensitivity"})
             = IF g.content_logged THEN 1 ELSE 0
        /\ g.content_logged =>
             /\ low \/ default
             /\ low <=> C15_OtherFour(req, g) /\ C15_TransfersAtHome(req)
             /\ low => \A n \in DOMAIN locals.accumulated :
                           locals.accumulated[n] \notin LoggingConditions
             /\ default => \A c \in LoggingConditions :
                           \E n \in DOMAIN locals.accumulated : locals.accumulated[n] = c
             /\ default /\ C15_OtherFour(req, g) =>
                    "international_transfers" \in RiskIds(resp.risks)

\* C15: with content_logged the response holds exactly one of the risks
\* content_sensitivity_low and content_sensitivity, and neither otherwise;
\* the low variant (impact low, score 2, no logging conditions) is chosen
\* exactly when a purpose mentions security or safety, retention_days is
\* present and at most 30, training_or_reuse is false, vendors_involved is
\* false and cross_border_transfers is absent, "None" or "Within EEA"; the
\* default variant (impact medium, score 6, three logging conditions) is
\* chosen on cross-border grounds only together with an
\* international_transfers risk.
C15_ContentSensitivity == Responded => C15_Consequent

\* what does hold: the same of every request whose cross_border_transfers is
\* not the empty text
C15_WhenTransfersNotEmpty ==
    Responded /\ req.cross_border_transfers # <<>> => C15_Consequent

----------------------------------------------------------------------------
\* C16: in every response the conditions are non-empty exactly when the
\* decision is SHIP WITH CONDITIONS (so every path to that decision leaves a
\* condition and SHIP has none), and a risk of impact high or of score 8
\* occurs in ESCALATE responses only.
C16_ConditionsIffShipWithConditions ==
    Responded =>
        /\ resp.conditions # <<>> <=> resp.decision = "SHIP WITH CONDITIONS"
        /\ resp.decision = "SHIP" => resp.conditions = <<>>
        /\ \A n \in DOMAIN resp.risks :
               resp.risks[n].impact = "high" \/ resp.risks[n].score = SCORE_HIGH
                   => resp.decision = "ESCALATE"

\* SHIP WITH CONDITIONS on the purpose alone: no risk, and the one condition
\* is the one the decision step adds
C16_Witness ==
    /\ Responded
    /\ resp.decision = "SHIP WITH CONDITIONS"
    /\ resp.risks = <<>>
    /\ resp.conditions = <<COND_PURPOSE>>

=============================================================================
